---- MODULE Spec2Model ----
(***************************************************************************)
(* extobadges (src/src/main.rs): for every entry of badges.toml, fetch the *)
(* Chrome Web Store page and the addons.mozilla.org page, extract the user *)
(* counts, sum them and write <dest>/<name>.svg.                           *)
(*                                                                         *)
(* Text is modelled as a sequence of one-character strings, so that        *)
(* split_whitespace, trim, parse::<u32> and format!("{}") are computed     *)
(* rather than assumed.  Option<T> is a sequence of length at most one:    *)
(* None is << >>, Some(x) is <<x>>.                                        *)
(***************************************************************************)
EXTENDS Integers, Sequences, FiniteSets, TLC

VARIABLES
    badges_info,    \* main: HashMap<String, ExtensionPages> read from the TOML
    net,            \* what each URL answers: a fetch error or a page
    overflow_checks,\* whether the build panics on integer overflow (debug) or wraps
    remaining,      \* keys of badges_info the for loop has not reached yet
    pc,             \* position of the single thread
    badge_name,     \* main: loop variable
    total_count,    \* generate_users_badge: accumulator (u32)
    store_page,     \* generate_users_badge: body of the page just fetched
    badge_svg,      \* main: Result<String> returned by generate_users_badge
    files,          \* files written by this run, name -> contents
    log,            \* observable events in order: println, sleep, fetch, write
    exit_code       \* None while running, Some(code) once the process ended

vars == <<badges_info, net, overflow_checks, remaining, pc, badge_name,
          total_count, store_page, badge_svg, files, log, exit_code>>

----------------------------------------------------------------------------
(* Bounds of the model *)

\* u32::MAX, scaled down so that overflow is within reach of the checker
MaxU32 == 15
\* longest sequence of span elements in a generated noscript section
MaxSpans == 2
\* longest generated page made of markers and filler
MaxSegs == 4
\* most children of one parent element in a generated addon page
MaxChildren == 2

(* Program constants *)

\* unwrap_or(1000) of --delay
DefaultDelay == 1000
\* page_contents[start_idx + 10..end_idx]: the length of "<noscript>"
OpenMarkerLen == 10
\* std::process::exit(-1)
FatalExitCode == -1
\* exit status of a Rust panic
PanicExitCode == 101

None == << >>
Some(x) == <<x>>
UnwrapOr(o, d) == IF o = None THEN d ELSE o[1]

----------------------------------------------------------------------------
(* Text *)

Digits == {"0", "1", "2", "3", "4", "5", "6", "7", "8", "9"}

DigitVal(c) ==
    CASE c = "0" -> 0 [] c = "1" -> 1 [] c = "2" -> 2 [] c = "3" -> 3
      [] c = "4" -> 4 [] c = "5" -> 5 [] c = "6" -> 6 [] c = "7" -> 7
      [] c = "8" -> 8 [] c = "9" -> 9

DigitChar(d) ==
    CASE d = 0 -> "0" [] d = 1 -> "1" [] d = 2 -> "2" [] d = 3 -> "3"
      [] d = 4 -> "4" [] d = 5 -> "5" [] d = 6 -> "6" [] d = 7 -> "7"
      [] d = 8 -> "8" [] d = 9 -> "9"

IsWhitespace(c) == c \in {" ", "\n", "\t"}

\* str::parse::<u32>: an optional '+', then one or more decimal digits, no
\* surrounding whitespace; Err on anything else and on overflow.  Err is None.
RECURSIVE ParseDigits(_, _)
ParseDigits(s, acc) ==
    IF s = << >> THEN Some(acc)
    ELSE IF Head(s) \notin Digits THEN None
    ELSE LET v == acc * 10 + DigitVal(Head(s))
         IN  IF v > MaxU32 THEN None ELSE ParseDigits(Tail(s), v)

ParseU32(s) ==
    LET body == IF s # << >> /\ Head(s) = "+" THEN Tail(s) ELSE s
    IN  IF body = << >> THEN None ELSE ParseDigits(body, 0)

\* format!("{}", n) of an unsigned integer
RECURSIVE FormatU32(_)
FormatU32(n) ==
    IF n < 10 THEN <<DigitChar(n)>>
    ELSE Append(FormatU32(n \div 10), DigitChar(n % 10))

\* str::split_whitespace().collect::<Vec<&str>>()
RECURSIVE SplitFrom(_, _, _)
SplitFrom(s, cur, acc) ==
    IF s = << >> THEN (IF cur = << >> THEN acc ELSE Append(acc, cur))
    ELSE IF IsWhitespace(Head(s))
         THEN SplitFrom(Tail(s), << >>, IF cur = << >> THEN acc ELSE Append(acc, cur))
         ELSE SplitFrom(Tail(s), Append(cur, Head(s)), acc)

SplitWhitespace(s) == SplitFrom(s, << >>, << >>)

\* str::trim()
RECURSIVE TrimStart(_)
TrimStart(s) ==
    IF s # << >> /\ IsWhitespace(Head(s)) THEN TrimStart(Tail(s)) ELSE s

RECURSIVE TrimEnd(_)
TrimEnd(s) ==
    IF s # << >> /\ IsWhitespace(s[Len(s)])
    THEN TrimEnd(SubSeq(s, 1, Len(s) - 1)) ELSE s

Trim(s) == TrimEnd(TrimStart(s))

----------------------------------------------------------------------------
(* Chrome Web Store page: extract_chrome_webstore_users                     *)
(*                                                                          *)
(* A page body is a sequence of segments; each segment stands for a run of  *)
(* bytes of the body: the opening marker "<noscript>", the closing marker   *)
(* "</noscript>", one span element, or filler text.  Offsets are in bytes,  *)
(* as str::find and str::rfind return them.                                 *)

OpenSeg == [kind |-> "open", title |-> None, text |-> << >>]
CloseSeg == [kind |-> "close", title |-> None, text |-> << >>]
FillerSeg == [kind |-> "filler", title |-> None, text |-> <<"x">>]
SpanSeg(title, text) == [kind |-> "span", title |-> title, text |-> text]

\* bytes of a segment: "<noscript>", "</noscript>", the filler's text,
\* <span>TEXT</span> or <span title="TITLE">TEXT</span>
SegLen(seg) ==
    CASE seg.kind = "open" -> OpenMarkerLen
      [] seg.kind = "close" -> OpenMarkerLen + 1
      [] seg.kind = "filler" -> Len(seg.text)
      [] seg.kind = "span" ->
            IF seg.title = None THEN 13 + Len(seg.text)
            ELSE 22 + Len(seg.title[1]) + Len(seg.text)

RECURSIVE ByteLen(_)
ByteLen(page) == IF page = << >> THEN 0 ELSE SegLen(Head(page)) + ByteLen(Tail(page))

\* byte offset at which segment i of the page starts
OffsetOf(page, i) == ByteLen(SubSeq(page, 1, i - 1))

\* page_contents.find("<noscript>")
FindOpen(page) ==
    LET hits == {i \in DOMAIN page : page[i].kind = "open"}
    IN  IF hits = {} THEN None
        ELSE Some(OffsetOf(page, CHOOSE i \in hits : \A j \in hits : i <= j))

\* page_contents.rfind("</noscript>")
RFindClose(page) ==
    LET hits == {i \in DOMAIN page : page[i].kind = "close"}
    IN  IF hits = {} THEN None
        ELSE Some(OffsetOf(page, CHOOSE i \in hits : \A j \in hits : i >= j))

\* &page_contents[from..to] panics unless from <= to <= len
SliceInBounds(page, from, to) == from <= to /\ to <= ByteLen(page)

\* &page_contents[from..to]: the segments lying within the byte range
Slice(page, from, to) ==
    LET inside(i) == /\ OffsetOf(page, i) >= from
                     /\ OffsetOf(page, i) + SegLen(page[i]) <= to
        keep == {i \in DOMAIN page : inside(i)}
        nth(k) == CHOOSE i \in keep : Cardinality({j \in keep : j < i}) = k - 1
    IN  [k \in 1..Cardinality(keep) |-> page[nth(k)]]

\* Document::from(actual_html).find(Name("span")): the span elements of the
\* fragment in document order
FindSpans(html) == SelectSeq(html, LAMBDA seg : seg.kind = "span")

\* ScanSpans with a plausible slip, used to test C6: a candidate whose first
\* token does not parse is skipped like one with the wrong number of tokens
RECURSIVE ScanSpansSkipsUnparsable(_)
ScanSpansSkipsUnparsable(nodes) ==
    IF nodes = << >> THEN None
    ELSE LET node == Head(nodes)
         IN  IF node.title # None /\ node.title[1] = node.text
             THEN LET parts == SplitWhitespace(node.title[1])
                  IN  IF Len(parts) # 2 \/ ParseU32(parts[1]) = None
                      THEN ScanSpansSkipsUnparsable(Tail(nodes))
                      ELSE ParseU32(parts[1])
             ELSE ScanSpansSkipsUnparsable(Tail(nodes))

\* the for loop over the span nodes: Option<u32>
RECURSIVE ScanSpans(_)
ScanSpans(nodes) ==
    IF nodes = << >> THEN None
    ELSE LET node == Head(nodes)
         IN  IF node.title # None /\ node.title[1] = node.text
             THEN LET parts == SplitWhitespace(node.title[1])
                  IN  IF Len(parts) # 2 THEN ScanSpans(Tail(nodes))
                      ELSE ParseU32(parts[1])
             ELSE ScanSpans(Tail(nodes))

\* what a call of an extractor does to the process: it returns an Option<u32>,
\* or it ends the process (std::process::exit, or a panic)
Returns(val) == [ctl |-> "return", val |-> val, code |-> 0]
Exits(code) == [ctl |-> "exit", val |-> None, code |-> code]
Panics == [ctl |-> "panic", val |-> None, code |-> PanicExitCode]

\* the check of the two markers: process::exit(-1) when either is missing
MissingMarker(page) == FindOpen(page) = None \/ RFindClose(page) = None

\* extract_chrome_webstore_users with a plausible slip, used to test C3: a
\* missing marker yields a quiet "no count"
ExtractDefaultsOnMissingMarker(page_contents) ==
    IF MissingMarker(page_contents) THEN Returns(None)
    ELSE LET start_idx == FindOpen(page_contents)[1]
             end_idx == RFindClose(page_contents)[1]
         IN  IF ~SliceInBounds(page_contents, start_idx + OpenMarkerLen, end_idx)
             THEN Panics
             ELSE Returns(ScanSpans(FindSpans(
                     Slice(page_contents, start_idx + OpenMarkerLen, end_idx))))

extract_chrome_webstore_users(page_contents) ==
    IF MissingMarker(page_contents) THEN Exits(FatalExitCode)
    ELSE LET start_idx == FindOpen(page_contents)[1]
             end_idx == RFindClose(page_contents)[1]
         IN  IF ~SliceInBounds(page_contents, start_idx + OpenMarkerLen, end_idx)
             THEN Panics
             ELSE Returns(ScanSpans(FindSpans(
                     Slice(page_contents, start_idx + OpenMarkerLen, end_idx))))

----------------------------------------------------------------------------
(* addons.mozilla.org page: extract_mozilla_addon_users                     *)
(*                                                                          *)
(* The parsed document is a sequence of parent elements in document order,  *)
(* each with its child elements in order.  in_list says whether the parent  *)
(* is, or lies inside, a dl of class MetadataCard-list.                     *)

Node(name, title_class, text) ==
    [name |-> name, title_class |-> title_class, text |-> text]

Group(in_list, children) == [in_list |-> in_list, children |-> children]

UsersLabel == <<"U", "s", "e", "r", "s">>

\* And(Name("dt"), Class("MetadataCard-title")) below a dl.MetadataCard-list
IsCardTitle(group, node) ==
    group.in_list /\ node.name = "dt" /\ node.title_class

\* node.parent().unwrap().children().find(|c| c.name().unwrap_or("") == "dd")
FirstDd(children) ==
    LET hits == {i \in DOMAIN children : children[i].name = "dd"}
    IN  IF hits = {} THEN None
        ELSE Some(children[CHOOSE i \in hits : \A j \in hits : i <= j])

\* document.find(...): the matching title cells in document order, each with
\* the children of its parent
RECURSIVE CardTitles(_)
CardTitles(document) ==
    IF document = << >> THEN << >>
    ELSE LET group == Head(document)
             here == SelectSeq(group.children,
                               LAMBDA node : IsCardTitle(group, node))
         IN  [k \in 1..Len(here) |->
                 [node |-> here[k], siblings |-> group.children]]
             \o CardTitles(Tail(document))

\* AtUsersTitle with a plausible slip, used to test C8: a value cell that
\* does not parse lets the loop go on to the next title cell
AtUsersTitleSkipsUnparsable(siblings) ==
    LET user_count_node == FirstDd(siblings)
    IN  IF user_count_node # None /\ ParseU32(user_count_node[1].text) # None
        THEN Some(ParseU32(user_count_node[1].text))
        ELSE None

\* the body of the for loop for a title cell whose trimmed text is "Users":
\* Some(result) when the loop returns at this cell, None when it goes on
AtUsersTitle(siblings) ==
    LET user_count_node == FirstDd(siblings)
    IN  IF user_count_node # None
        THEN Some(ParseU32(user_count_node[1].text))
        ELSE None

\* ScanTitles with a plausible slip, used to test C7: the label is compared
\* without trimming
RECURSIVE ScanTitlesUntrimmed(_)
ScanTitlesUntrimmed(card_titles) ==
    IF card_titles = << >> THEN None
    ELSE LET t == Head(card_titles)
         IN  IF t.node.text = UsersLabel
             THEN LET decided == AtUsersTitle(t.siblings)
                  IN  IF decided # None THEN decided[1]
                      ELSE ScanTitlesUntrimmed(Tail(card_titles))
             ELSE ScanTitlesUntrimmed(Tail(card_titles))

\* the for loop over card_titles
RECURSIVE ScanTitles(_)
ScanTitles(card_titles) ==
    IF card_titles = << >> THEN None
    ELSE LET t == Head(card_titles)
         IN  IF Trim(t.node.text) = UsersLabel
             THEN LET decided == AtUsersTitle(t.siblings)
                  IN  IF decided # None THEN decided[1]
                      ELSE ScanTitles(Tail(card_titles))
             ELSE ScanTitles(Tail(card_titles))

extract_mozilla_addon_users(page_contents) ==
    Returns(ScanTitles(CardTitles(page_contents)))

----------------------------------------------------------------------------
(* fetch_page, generate_users_badge and main                                *)

Ok(x) == [ok |-> TRUE, val |-> <<x>>]
Err == [ok |-> FALSE, val |-> << >>]

\* format!("https://chrome.google.com/webstore/detail/{chrome_id}") and
\* format!("https://addons.mozilla.org/en-US/firefox/addon/{mozilla_id}/")
Url(store, id) == <<store, id>>

\* ureq::get(&url).call()?.into_string()?: the body, or an error
fetch_page(url) == net[url[1]][url[2]]

\* total_count += user_count on u32: a debug build panics on overflow, a
\* release build wraps
AddOverflows(a, b) == a + b > MaxU32
WrappingAdd(a, b) == (a + b) % (MaxU32 + 1)

\* the badge BadgeBuilder renders: label "users", the total as its message
RenderBadge(total) ==
    [style |-> "flat", label |-> "users", message |-> FormatU32(total),
     message_color |-> <<0, 126, 198>>]

\* format!("{}/{}.svg", config.dest_path, badge_name)
SvgPath(name) == <<"dest", name, "svg">>

Event(ev, name, store, arg) == [ev |-> ev, name |-> name, store |-> store, arg |-> arg]

Pages == badges_info[badge_name]

\* how the process ends inside an extractor or an addition
Terminate(code) ==
    /\ pc' = "exited"
    /\ exit_code' = Some(code)
    /\ UNCHANGED <<badges_info, net, overflow_checks, remaining, badge_name,
                   total_count, store_page, badge_svg, files, log>>

\* .unwrap_or(0) and total_count += user_count, then on to next_pc
Accumulate(result, next_pc) ==
    LET user_count == UnwrapOr(result.val, 0)
    IN  IF AddOverflows(total_count, user_count) /\ overflow_checks
        THEN Terminate(PanicExitCode)
        ELSE /\ total_count' = WrappingAdd(total_count, user_count)
             /\ store_page' = << >>
             /\ pc' = next_pc
             /\ UNCHANGED <<badges_info, net, overflow_checks, remaining,
                            badge_name, badge_svg, files, log, exit_code>>

\* what the call of an extractor at line 142 or 151 leads to
AfterExtract(result, next_pc) ==
    IF result.ctl = "return" THEN Accumulate(result, next_pc)
    ELSE Terminate(result.code)

\* AfterFetch with a plausible slip, used to test C4: a fetch error is taken
\* as an empty body (unwrap_or_default in place of ?)
AfterFetchRecovers(store, response, next_pc) ==
    /\ log' = Append(log, Event("fetch", badge_name, store, response.ok))
    /\ store_page' = IF response.ok THEN response.val[1] ELSE << >>
    /\ pc' = next_pc
    /\ UNCHANGED <<badges_info, net, overflow_checks, remaining, badge_name,
                   total_count, badge_svg, files, exit_code>>

\* the ? of fetch_page(url)?: on Err generate_users_badge returns it at once
AfterFetch(store, response, next_pc) ==
    /\ log' = Append(log, Event("fetch", badge_name, store, response.ok))
    /\ IF response.ok
       THEN /\ store_page' = response.val[1]
            /\ pc' = next_pc
            /\ UNCHANGED badge_svg
       ELSE /\ badge_svg' = Err
            /\ pc' = "main_result"
            /\ UNCHANGED store_page
    /\ UNCHANGED <<badges_info, net, overflow_checks, remaining, badge_name,
                   total_count, files, exit_code>>

\* Sleep with a plausible slip, used to test C5: the sleep is left out
SleepLeftOut(store, next_pc) ==
    /\ pc' = next_pc
    /\ UNCHANGED <<badges_info, net, overflow_checks, remaining, badge_name,
                   total_count, store_page, badge_svg, files, log, exit_code>>

\* sleep(Duration::from_millis(delay))
Sleep(store, next_pc) ==
    /\ log' = Append(log, Event("sleep", badge_name, store, DefaultDelay))
    /\ pc' = next_pc
    /\ UNCHANGED <<badges_info, net, overflow_checks, remaining, badge_name,
                   total_count, store_page, badge_svg, files, exit_code>>

Goto(next_pc) ==
    /\ pc' = next_pc
    /\ UNCHANGED <<badges_info, net, overflow_checks, remaining, badge_name,
                   total_count, store_page, badge_svg, files, log, exit_code>>

\* StartEntry with a plausible slip, used to test C10: the total is kept
\* across entries (total_count declared outside the loop)
StartEntryKeepsTotal ==
    /\ pc = "main_loop"
    /\ \E name \in remaining :
          /\ badge_name' = name
          /\ remaining' = remaining \ {name}
          /\ log' = Append(log, Event("println", name, "", "Generating"))
    /\ pc' = "gen_chrome"
    /\ UNCHANGED <<badges_info, net, overflow_checks, total_count, store_page,
                   badge_svg, files, exit_code>>

\* main: the for loop takes the next key, in the HashMap's arbitrary order,
\* prints the progress line and calls generate_users_badge
StartEntry ==
    /\ pc = "main_loop"
    /\ \E name \in remaining :
          /\ badge_name' = name
          /\ remaining' = remaining \ {name}
          /\ log' = Append(log, Event("println", name, "", "Generating"))
    /\ total_count' = 0
    /\ pc' = "gen_chrome"
    /\ UNCHANGED <<badges_info, net, overflow_checks, store_page, badge_svg,
                   files, exit_code>>

\* main: the loop is over and main returns
FinishMain ==
    /\ pc = "main_loop"
    /\ remaining = {}
    /\ pc' = "exited"
    /\ exit_code' = Some(0)
    /\ UNCHANGED <<badges_info, net, overflow_checks, remaining, badge_name,
                   total_count, store_page, badge_svg, files, log>>

ChromeAbsent ==
    /\ pc = "gen_chrome"
    /\ Pages.chrome = None
    /\ Goto("gen_mozilla")

ChromeSleep ==
    /\ pc = "gen_chrome"
    /\ Pages.chrome # None
    /\ Sleep("chrome", "chrome_fetch")

ChromeFetch ==
    /\ pc = "chrome_fetch"
    /\ AfterFetch("chrome", fetch_page(Url("chrome", Pages.chrome[1])),
                  "chrome_extract")

ChromeExtract ==
    /\ pc = "chrome_extract"
    /\ AfterExtract(extract_chrome_webstore_users(store_page), "gen_mozilla")

MozillaAbsent ==
    /\ pc = "gen_mozilla"
    /\ Pages.mozilla = None
    /\ Goto("render")

MozillaSleep ==
    /\ pc = "gen_mozilla"
    /\ Pages.mozilla # None
    /\ Sleep("mozilla", "mozilla_fetch")

MozillaFetch ==
    /\ pc = "mozilla_fetch"
    /\ AfterFetch("mozilla", fetch_page(Url("mozilla", Pages.mozilla[1])),
                  "mozilla_extract")

MozillaExtract ==
    /\ pc = "mozilla_extract"
    /\ AfterExtract(extract_mozilla_addon_users(store_page), "render")

\* BadgeBuilder ... .render(), and Ok(badge_svg)
Render ==
    /\ pc = "render"
    /\ badge_svg' = Ok(RenderBadge(total_count))
    /\ pc' = "main_result"
    /\ UNCHANGED <<badges_info, net, overflow_checks, remaining, badge_name,
                   total_count, store_page, files, log, exit_code>>

\* EntryFailed with a plausible slip, used to test C1: the error is unwrapped
\* and main panics
EntryFailedPanics ==
    /\ pc = "main_result"
    /\ ~badge_svg.ok
    /\ pc' = "exited"
    /\ exit_code' = Some(PanicExitCode)
    /\ UNCHANGED <<badges_info, net, overflow_checks, remaining, badge_name,
                   total_count, store_page, badge_svg, files, log>>

\* main: badge_svg.is_err(): print the failure and continue
EntryFailed ==
    /\ pc = "main_result"
    /\ ~badge_svg.ok
    /\ log' = Append(log, Event("println", badge_name, "", "Failed"))
    /\ pc' = "main_loop"
    /\ UNCHANGED <<badges_info, net, overflow_checks, remaining, badge_name,
                   total_count, store_page, badge_svg, files, exit_code>>

\* main: File::create and write_all succeed
WriteFile ==
    /\ pc = "main_result"
    /\ badge_svg.ok
    /\ files' = [n \in DOMAIN files \cup {badge_name} |->
                    IF n = badge_name THEN badge_svg.val[1] ELSE files[n]]
    /\ log' = Append(log, Event("write", badge_name, "", SvgPath(badge_name)))
    /\ pc' = "main_loop"
    /\ UNCHANGED <<badges_info, net, overflow_checks, remaining, badge_name,
                   total_count, store_page, badge_svg, exit_code>>

\* main: File::create or write_all fails and its expect panics
WriteFails ==
    /\ pc = "main_result"
    /\ badge_svg.ok
    /\ Terminate(PanicExitCode)

Next ==
    \/ StartEntry
    \/ FinishMain
    \/ ChromeAbsent
    \/ ChromeSleep
    \/ ChromeFetch
    \/ ChromeExtract
    \/ MozillaAbsent
    \/ MozillaSleep
    \/ MozillaFetch
    \/ MozillaExtract
    \/ Render
    \/ EntryFailed
    \/ WriteFile
    \/ WriteFails

----------------------------------------------------------------------------
(* Inputs: the entries of badges.toml and what the two stores answer        *)

\* all sequences over S of length at most n
RECURSIVE SeqsUpTo(_, _)
SeqsUpTo(S, n) ==
    IF n = 0 THEN {<< >>}
    ELSE LET shorter == SeqsUpTo(S, n - 1)
         IN  shorter \cup {Append(s, x) : s \in shorter, x \in S}

UsersWord == <<" ", "u", "s", "e", "r", "s">>
CountText(n) == FormatU32(n) \o UsersWord

\* texts of span elements: a count, the largest count, a count too large for
\* u32, a first token that is no number, one token, three tokens, no token,
\* and a count with more whitespace around its tokens
SpanTexts ==
    { CountText(3), CountText(MaxU32), CountText(MaxU32 + 1),
      <<"m", "a", "n", "y">> \o UsersWord,
      <<"3">>,
      <<"3", " ", "n", "e", "w">> \o UsersWord,
      << >>,
      <<" ", "3", " ">> \o UsersWord \o <<"\n">> }

\* span elements: title equal to the text, no title, title other than the text
SpanKinds ==
    {SpanSeg(Some(t), t) : t \in SpanTexts}
        \cup {SpanSeg(None, CountText(5)),
              SpanSeg(Some(CountText(7)), <<"7", "+">> \o UsersWord)}

\* pages with one noscript section holding span elements only
SectionPages == {<<OpenSeg>> \o spans \o <<CloseSeg>> : spans \in SeqsUpTo(SpanKinds, MaxSpans)}

\* pages with any number of markers at any positions
MarkerPages ==
    SeqsUpTo({OpenSeg, CloseSeg, FillerSeg, SpanSeg(Some(CountText(3)), CountText(3))},
             MaxSegs)

ChromePages == SectionPages \cup MarkerPages

\* a few pages for the runs over several entries
FewChromePages ==
    { <<OpenSeg, SpanSeg(Some(CountText(3)), CountText(3)), CloseSeg>>,
      <<OpenSeg, SpanSeg(Some(CountText(MaxU32)), CountText(MaxU32)), CloseSeg>>,
      <<OpenSeg, FillerSeg, CloseSeg>>,
      <<FillerSeg>>,
      <<OpenSeg, FillerSeg>>,
      <<FillerSeg, CloseSeg>>,
      <<CloseSeg, OpenSeg>> }

DtUsers == Node("dt", TRUE, <<"\n", " ">> \o UsersLabel \o <<" ">>)
DtReviews == Node("dt", TRUE, <<"R", "e", "v", "i", "e", "w", "s">>)
DtPlain == Node("dt", FALSE, UsersLabel)
DdCount(n) == Node("dd", FALSE, FormatU32(n))
DdBad == Node("dd", FALSE, <<"1", ",", "2", "3", "4">>)

NodeKinds == {DtUsers, DtReviews, DdCount(7), DdBad}

\* documents of at most two parents inside the metadata list
ListGroups == {Group(TRUE, c) : c \in SeqsUpTo(NodeKinds, MaxChildren)}
ListPages ==
    {<< >>} \cup {<<g>> : g \in ListGroups}
            \cup {<<g, h>> : g \in ListGroups, h \in ListGroups}

\* documents with what ListPages leaves out: a parent outside the list, a
\* title cell without the class, exact and padded labels, a second value
\* cell, a value cell with whitespace, a count too large for u32
OtherPages ==
    { <<Group(FALSE, <<DtUsers, DdCount(3)>>), Group(TRUE, <<DtUsers, DdCount(7)>>)>>,
      <<Group(FALSE, <<DtUsers, DdCount(3)>>)>>,
      <<Group(TRUE, <<DtPlain, DdCount(3)>>), Group(TRUE, <<DtUsers, DdCount(7)>>)>>,
      <<Group(TRUE, <<Node("dt", TRUE, UsersLabel), DdCount(1)>>)>>,
      <<Group(TRUE, <<Node("dt", TRUE, UsersLabel \o <<" ", "x">>), DdCount(1)>>)>>,
      <<Group(TRUE, <<DdCount(3), DtUsers, DdCount(7)>>)>>,
      <<Group(TRUE, <<DdBad, DtUsers, DdCount(7)>>)>>,
      <<Group(TRUE, <<DtReviews, DdCount(3), DtUsers, DdCount(7)>>)>>,
      <<Group(TRUE, <<DtUsers, Node("dd", FALSE, <<" ", "7">>)>>)>>,
      <<Group(TRUE, <<DtUsers, Node("div", FALSE, <<"7">>)>>)>>,
      <<Group(TRUE, <<DtUsers, DdCount(MaxU32)>>)>>,
      <<Group(TRUE, <<DtUsers, DdCount(MaxU32 + 1)>>)>> }

MozillaPages == ListPages \cup OtherPages

FewMozillaPages ==
    { <<Group(TRUE, <<DtUsers, DdCount(1)>>)>>,
      <<Group(TRUE, <<DtUsers, DdBad>>)>> }

\* the identifier badges.toml may give an entry for each store
ChromeId == [foo |-> "abc123", bar |-> "def456"]
MozillaId == [foo |-> "foo-addon", bar |-> "bar-addon"]

Responses(bodies) == {Err} \cup {Ok(b) : b \in bodies}

\* the state when main enters its for loop
InitWith(NameSets, chrome_bodies, mozilla_bodies) ==
    /\ \E names \in NameSets :
          badges_info \in [names -> [chrome : {None} \cup {Some(ChromeId[n]) : n \in names},
                                     mozilla : {None} \cup {Some(MozillaId[n]) : n \in names}]]
    /\ \A n \in DOMAIN badges_info :
          /\ badges_info[n].chrome \in {None, Some(ChromeId[n])}
          /\ badges_info[n].mozilla \in {None, Some(MozillaId[n])}
    /\ LET chrome_ids == {badges_info[n].chrome[1] :
                             n \in {m \in DOMAIN badges_info : badges_info[m].chrome # None}}
           mozilla_ids == {badges_info[n].mozilla[1] :
                             n \in {m \in DOMAIN badges_info : badges_info[m].mozilla # None}}
       IN  \E c \in [chrome_ids -> Responses(chrome_bodies)],
              m \in [mozilla_ids -> Responses(mozilla_bodies)] :
              net = [chrome |-> c, mozilla |-> m]
    /\ overflow_checks \in BOOLEAN
    /\ remaining = DOMAIN badges_info
    /\ pc = "main_loop"
    /\ badge_name = ""
    /\ total_count = 0
    /\ store_page = << >>
    /\ badge_svg = Err
    /\ files = << >>
    /\ log = << >>
    /\ exit_code = None

EntryNames == {"foo", "bar"}

\* runs over up to two entries
Init == InitWith(SUBSET EntryNames, FewChromePages, FewMozillaPages)
Spec == Init /\ [][Next]_vars

\* runs over one entry whose Chrome Web Store page is any of ChromePages
InitChrome == InitWith({{"foo"}}, ChromePages, FewMozillaPages)
SpecChrome == InitChrome /\ [][Next]_vars

\* runs over one entry whose addon page is any of MozillaPages
InitMozilla ==
    InitWith({{"foo"}},
             {<<OpenSeg, SpanSeg(Some(CountText(MaxU32)), CountText(MaxU32)), CloseSeg>>},
             MozillaPages)
SpecMozilla == InitMozilla /\ [][Next]_vars

----------------------------------------------------------------------------
(* What a run has shown so far, read off the log                            *)

Entries == DOMAIN badges_info

EventsOf(name) == {i \in DOMAIN log : log[i].name = name}

FetchesOf(name, store) ==
    {i \in DOMAIN log : log[i].ev = "fetch" /\ log[i].name = name /\ log[i].store = store}

FailedFetchesOf(name) ==
    {i \in DOMAIN log : log[i].ev = "fetch" /\ log[i].name = name /\ ~log[i].arg}

FetchFailedFor(name) == FailedFetchesOf(name) # {}

Printed(what, name) ==
    {i \in DOMAIN log : log[i].ev = "println" /\ log[i].name = name /\ log[i].arg = what}

WritesOf(name) == {i \in DOMAIN log : log[i].ev = "write" /\ log[i].name = name}

\* the answer of a store for an entry that names it
ChromeResponse(name) == fetch_page(Url("chrome", badges_info[name].chrome[1]))
MozillaResponse(name) == fetch_page(Url("mozilla", badges_info[name].mozilla[1]))

\* the current entry's fetch failed and main has not yet handled the result
FailurePending(name) ==
    pc = "main_result" /\ badge_name = name /\ ~badge_svg.ok /\ exit_code = None

----------------------------------------------------------------------------
(* C1 *)

\* C1, as stated, for the runs that do not panic: once the process has ended,
\* every entry whose fetch failed has its failure message and no file, every
\* entry of the batch has been processed, and the exit code is 0.
C1_Original ==
    (exit_code # None /\ exit_code # Some(PanicExitCode)) =>
        \A n \in Entries :
            FetchFailedFor(n) =>
                /\ Printed("Failed", n) # {}
                /\ n \notin DOMAIN files
                /\ remaining = {}
                /\ exit_code = Some(0)

\* C1, amended: a fetch failure of an entry leaves no file of that entry and
\* exactly one failure message naming it, and does not itself end the process:
\* right after the message main is back at the head of its loop, with no exit
\* code, or has left the loop with every entry processed and exit code 0.  A
\* run that ends with exit code 0 has processed every entry and has written
\* the file of exactly those whose generate_users_badge did not fail.
C1_FailureIsSkipped ==
    /\ \A n \in Entries :
          FetchFailedFor(n) =>
              /\ n \notin DOMAIN files
              /\ WritesOf(n) = {}
              /\ \/ FailurePending(n) /\ Printed("Failed", n) = {}
                 \/ Cardinality(Printed("Failed", n)) = 1
    /\ (log # << >> /\ log[Len(log)].ev = "println" /\ log[Len(log)].arg = "Failed") =>
          \/ pc = "main_loop" /\ exit_code = None
          \/ pc = "exited" /\ exit_code = Some(0) /\ remaining = {}
    /\ exit_code = Some(0) =>
          /\ remaining = {}
          /\ \A n \in Entries :
                /\ Printed("Generating", n) # {}
                /\ (n \in DOMAIN files) = (Printed("Failed", n) = {})
                /\ (n \in DOMAIN files) = ~FetchFailedFor(n)

\* a batch in which one entry failed its fetch, a later entry got its file,
\* and the process ended with exit code 0
C1_Witness ==
    /\ exit_code = Some(0)
    /\ \E n \in Entries, m \in Entries :
          /\ FetchFailedFor(n)
          /\ m \in DOMAIN files
          /\ \E i \in Printed("Failed", n), j \in WritesOf(m) : i < j

----------------------------------------------------------------------------
(* C2 *)

\* what a store contributes to an entry's total: the extracted count, or 0
\* when the identifier is absent or no count was extracted
ChromeContribution(name) ==
    IF badges_info[name].chrome = None THEN 0
    ELSE UnwrapOr(extract_chrome_webstore_users(ChromeResponse(name).val[1]).val, 0)

MozillaContribution(name) ==
    IF badges_info[name].mozilla = None THEN 0
    ELSE UnwrapOr(extract_mozilla_addon_users(MozillaResponse(name).val[1]).val, 0)

\* C2: when generate_users_badge returns a badge, its message is the sum of
\* the two stores' contributions, and an entry with neither identifier gets
\* the total 0 without any fetch.
C2_TotalIsSum ==
    (pc = "main_result" /\ badge_svg.ok) =>
        /\ badge_svg.val[1].message =
              FormatU32(ChromeContribution(badge_name) + MozillaContribution(badge_name))
        /\ (Pages.chrome = None /\ Pages.mozilla = None) =>
              /\ badge_svg.val[1].message = <<"0">>
              /\ FetchesOf(badge_name, "chrome") \cup FetchesOf(badge_name, "mozilla") = {}

----------------------------------------------------------------------------
(* C3 *)

\* C3: once a Chrome page without the opening or the closing marker has been
\* fetched, nothing observable happens any more: the fetch stays the last
\* event, the process is about to leave extract_chrome_webstore_users or has
\* ended with a non-zero exit code, the entry has no file, its mozilla store
\* was not queried, and no remaining entry was touched.
C3_FatalExit ==
    \A i \in DOMAIN log :
        (/\ log[i].ev = "fetch"
         /\ log[i].store = "chrome"
         /\ log[i].arg
         /\ MissingMarker(ChromeResponse(log[i].name).val[1])) =>
            /\ i = Len(log)
            /\ badge_name = log[i].name
            /\ \/ pc = "chrome_extract" /\ exit_code = None
               \/ pc = "exited" /\ exit_code # None /\ exit_code[1] # 0
            /\ badge_name \notin DOMAIN files
            /\ \A j \in EventsOf(badge_name) : log[j].store # "mozilla"
            /\ \A n \in remaining : EventsOf(n) = {}

\* the process has ended on the fatal path with an entry still unprocessed
\* and the current entry's mozilla identifier configured
C3_Witness ==
    /\ exit_code = Some(FatalExitCode)
    /\ remaining # {}
    /\ Pages.mozilla # None
    /\ Pages.chrome # None
    /\ MissingMarker(ChromeResponse(badge_name).val[1])

----------------------------------------------------------------------------
(* C4 *)

\* C4, as stated: an entry with a fetch error still produces a badge.
C4_Original ==
    (pc = "main_result" /\ FetchFailedFor(badge_name)) => badge_svg.ok

\* C4, amended: a fetch error is not recovered inside the entry.
\* generate_users_badge returns the error at once: the failed fetch is the
\* entry's last sleep or fetch (after a chrome error the mozilla store is not
\* queried), the result main sees is an error, and no file is written for the
\* entry.
C4_FetchErrorFailsEntry ==
    \A n \in Entries :
        \A i \in FailedFetchesOf(n) :
            /\ \A j \in EventsOf(n) : j > i => log[j].ev \notin {"sleep", "fetch", "write"}
            /\ (pc = "main_result" /\ badge_name = n) => ~badge_svg.ok
            /\ pc \notin {"chrome_extract", "gen_mozilla", "mozilla_fetch",
                          "mozilla_extract", "render"} \/ badge_name # n
            /\ n \notin DOMAIN files

\* the chrome fetch of an entry with both identifiers failed and main has
\* reported the failure
C4_Witness ==
    \E n \in Entries :
        /\ badges_info[n].chrome # None
        /\ badges_info[n].mozilla # None
        /\ \E i \in FailedFetchesOf(n) : log[i].store = "chrome"
        /\ Printed("Failed", n) # {}

----------------------------------------------------------------------------
(* C5 *)

\* C5: every fetch comes right after exactly one sleep of the configured
\* delay for the same entry and store, every sleep is followed by its fetch,
\* an entry's chrome events come before its mozilla events, an absent
\* identifier causes neither sleep nor fetch, each store is fetched at most
\* once per entry, and the events of different entries never interleave.
C5_Sequential ==
    /\ \A i \in DOMAIN log :
          log[i].ev = "fetch" =>
              /\ i > 1
              /\ log[i - 1].ev = "sleep"
              /\ log[i - 1].name = log[i].name
              /\ log[i - 1].store = log[i].store
              /\ log[i - 1].arg = DefaultDelay
              /\ i > 2 => log[i - 2].ev # "sleep"
    /\ \A i \in DOMAIN log :
          log[i].ev = "sleep" =>
              IF i = Len(log)
              THEN pc = (IF log[i].store = "chrome" THEN "chrome_fetch" ELSE "mozilla_fetch")
              ELSE log[i + 1].ev = "fetch"
    /\ \A i \in DOMAIN log, j \in DOMAIN log :
          (/\ log[i].name = log[j].name
           /\ log[i].store = "chrome"
           /\ log[j].store = "mozilla") => i < j
    /\ \A n \in Entries :
          /\ badges_info[n].chrome = None =>
                \A i \in EventsOf(n) : log[i].store # "chrome"
          /\ badges_info[n].mozilla = None =>
                \A i \in EventsOf(n) : log[i].store # "mozilla"
          /\ Cardinality(FetchesOf(n, "chrome")) <= 1
          /\ Cardinality(FetchesOf(n, "mozilla")) <= 1
    /\ \A i \in DOMAIN log, j \in DOMAIN log, k \in DOMAIN log :
          (i < j /\ j < k /\ log[i].name = log[k].name) => log[j].name = log[i].name
    /\ \A n \in Entries :
          EventsOf(n) # {} =>
              LET first == CHOOSE i \in EventsOf(n) : \A j \in EventsOf(n) : i <= j
              IN  log[first].ev = "println" /\ log[first].arg = "Generating"

\* two entries were processed, the first one fetching both stores and getting
\* its file before the second one's first sleep
C5_Witness ==
    \E n \in Entries, m \in Entries :
        /\ n # m
        /\ FetchesOf(n, "chrome") # {}
        /\ FetchesOf(n, "mozilla") # {}
        /\ \E w \in WritesOf(n), f \in FetchesOf(m, "mozilla") : w < f
        /\ badges_info[m].chrome = None

----------------------------------------------------------------------------
(* C10 *)

\* what generate_users_badge and main do for one entry taken alone: the
\* process ends inside an extractor or an addition, the entry fails, or its
\* badge is written
EntryOutcome(name) ==
    LET pages == badges_info[name]
        ends(code) == [kind |-> "ends", code |-> code, svg |-> << >>]
        failed == [kind |-> "failed", code |-> 0, svg |-> << >>]
        after_mozilla(total, r) ==
            IF r.ctl # "return" THEN ends(r.code)
            ELSE IF AddOverflows(total, UnwrapOr(r.val, 0)) /\ overflow_checks
                 THEN ends(PanicExitCode)
                 ELSE [kind |-> "badge", code |-> 0,
                       svg |-> RenderBadge(WrappingAdd(total, UnwrapOr(r.val, 0)))]
        mozilla(total) ==
            IF pages.mozilla = None THEN after_mozilla(total, Returns(None))
            ELSE IF ~MozillaResponse(name).ok THEN failed
            ELSE after_mozilla(total,
                     extract_mozilla_addon_users(MozillaResponse(name).val[1]))
        after_chrome(r) ==
            IF r.ctl # "return" THEN ends(r.code)
            ELSE mozilla(WrappingAdd(0, UnwrapOr(r.val, 0)))
    IN  IF pages.chrome = None THEN mozilla(0)
        ELSE IF ~ChromeResponse(name).ok THEN failed
        ELSE after_chrome(extract_chrome_webstore_users(ChromeResponse(name).val[1]))

\* C10, as stated, for the runs that do not panic: once the process has
\* ended, the files that exist are those of the entries that succeed when
\* taken alone, whatever the order of iteration was.
C10_Original ==
    (exit_code # None /\ exit_code # Some(PanicExitCode)) =>
        \A n \in Entries :
            (n \in DOMAIN files) = (EntryOutcome(n).kind = "badge")

\* C10, amended: a file that is written always holds the badge its entry
\* yields when taken alone, whatever was processed before it; and a run that
\* ends with exit code 0 leaves exactly the files of the entries that yield
\* a badge, so such runs end alike in every order.  An entry that ends the
\* process keeps the entries iterated after it from being processed, so the
\* files and the exit code of those runs depend on the order.
C10_EntriesAreIsolated ==
    /\ \A n \in DOMAIN files :
          /\ EntryOutcome(n).kind = "badge"
          /\ files[n] = EntryOutcome(n).svg
    /\ exit_code = Some(0) =>
          \A n \in Entries :
              /\ EntryOutcome(n).kind # "ends"
              /\ (n \in DOMAIN files) = (EntryOutcome(n).kind = "badge")

\* both entries of a batch have their files, with different totals
C10_Witness ==
    /\ exit_code = Some(0)
    /\ Cardinality(DOMAIN files) = 2
    /\ \E n \in DOMAIN files, m \in DOMAIN files : files[n] # files[m]

----------------------------------------------------------------------------
(* The noscript section and its candidates, by position                     *)

FirstOpenAt(page) ==
    CHOOSE i \in DOMAIN page :
        page[i].kind = "open" /\ \A j \in 1..(i - 1) : page[j].kind # "open"

LastCloseAt(page) ==
    CHOOSE i \in DOMAIN page :
        page[i].kind = "close" /\ \A j \in (i + 1)..Len(page) : page[j].kind # "close"

\* both markers are there and the first opening one precedes the last closing one
WellFormed(page) == ~MissingMarker(page) /\ FirstOpenAt(page) < LastCloseAt(page)

\* the span elements between the first opening and the last closing marker
SectionSpans(page) ==
    LET at == {i \in DOMAIN page :
                  /\ FirstOpenAt(page) < i
                  /\ i < LastCloseAt(page)
                  /\ page[i].kind = "span"}
        nth(k) == CHOOSE i \in at : Cardinality({j \in at : j < i}) = k - 1
    IN  [k \in 1..Cardinality(at) |-> page[nth(k)]]

\* a span whose title equals its text, the text being two tokens
TwoTokenLabel(span) ==
    /\ span.title = Some(span.text)
    /\ Len(SplitWhitespace(span.text)) = 2

FirstToken(span) == SplitWhitespace(span.text)[1]

\* a span as C6 describes it: a two-token label whose first token is a u32
CountLabel(span) == TwoTokenLabel(span) /\ ParseU32(FirstToken(span)) # None

Least(S) == CHOOSE i \in S : \A j \in S : i <= j

----------------------------------------------------------------------------
(* C6 *)

\* C6, as stated: when the section holds a span with title equal to its text,
\* two tokens and a first token that parses, the extractor returns the count
\* of the first such span, whatever spans precede it.
C6_Original ==
    (pc = "chrome_extract" /\ WellFormed(store_page)) =>
        LET spans == SectionSpans(store_page)
            labels == {i \in DOMAIN spans : CountLabel(spans[i])}
        IN  labels # {} =>
                extract_chrome_webstore_users(store_page)
                    = Returns(ParseU32(FirstToken(spans[Least(labels)])))

\* C6, amended: the extractor answers at the first span of the section whose
\* title equals its text and whose text has exactly two tokens: it returns
\* the first token's value when that parses as a u32 and no count when it
\* does not, without looking at any later span.  Spans without a title, with
\* another title or with a number of tokens other than two are skipped; with
\* no two-token label in the section the result is no count.  The count, or
\* 0 for no count, is what the chrome store adds to the entry's total.
C6_FirstTwoTokenLabelDecides ==
    LET expected(page) ==
            LET spans == SectionSpans(page)
                labels == {i \in DOMAIN spans : TwoTokenLabel(spans[i])}
            IN  IF labels = {} THEN None
                ELSE ParseU32(FirstToken(spans[Least(labels)]))
    IN  /\ (pc = "chrome_extract" /\ WellFormed(store_page)) =>
              extract_chrome_webstore_users(store_page) = Returns(expected(store_page))
        /\ (pc = "gen_mozilla" /\ Pages.chrome # None
                /\ WellFormed(ChromeResponse(badge_name).val[1])) =>
              total_count = UnwrapOr(expected(ChromeResponse(badge_name).val[1]), 0)

\* the chrome store has added the count of the second span of the section,
\* the first one being a label of three tokens that was skipped
C6_Witness ==
    /\ pc = "gen_mozilla"
    /\ Pages.chrome # None
    /\ WellFormed(ChromeResponse(badge_name).val[1])
    /\ LET spans == SectionSpans(ChromeResponse(badge_name).val[1])
       IN  /\ Len(spans) = 2
           /\ spans[1].title = Some(spans[1].text)
           /\ Len(SplitWhitespace(spans[1].text)) = 3
           /\ CountLabel(spans[2])
           /\ total_count = ParseU32(FirstToken(spans[2]))[1]
           /\ total_count > 0

----------------------------------------------------------------------------
(* C9 *)

\* C9: on a page that holds both markers, wherever they are, the extractor
\* returns a count or no count and never ends the process.
C9_NeverCrashes ==
    (pc = "chrome_extract" /\ ~MissingMarker(store_page)) =>
        extract_chrome_webstore_users(store_page).ctl = "return"

----------------------------------------------------------------------------
(* Title cells and value cells of an addon page, by position                *)

\* positions <<parent, child>> of the title cells reading "Users": dt
\* elements of class MetadataCard-title inside the metadata list
UsersCells(document) ==
    {p \in UNION {{<<g, c>> : c \in DOMAIN document[g].children} : g \in DOMAIN document} :
        /\ document[p[1]].in_list
        /\ document[p[1]].children[p[2]].name = "dt"
        /\ document[p[1]].children[p[2]].title_class
        /\ Trim(document[p[1]].children[p[2]].text) = UsersLabel}

\* document order
Before(p, q) == p[1] < q[1] \/ (p[1] = q[1] /\ p[2] < q[2])

FirstCell(cells) == CHOOSE p \in cells : \A q \in cells : p = q \/ Before(p, q)

\* positions of the dd children of a parent
DdsOf(document, g) ==
    {c \in DOMAIN document[g].children : document[g].children[c].name = "dd"}

FirstDdText(document, g) == document[g].children[Least(DdsOf(document, g))].text

\* the "Users" title cells whose parent has a dd child
DecidingCells(document) ==
    {p \in UsersCells(document) : DdsOf(document, p[1]) # {}}

----------------------------------------------------------------------------
(* C7 *)

\* C7, as stated: when some "Users" title cell has a sibling dd whose text
\* parses as a u32, the extractor returns the integer of such a value cell,
\* whatever else the page or the parent holds.
C7_Original ==
    pc = "mozilla_extract" =>
        LET values == UNION {{ParseU32(store_page[p[1]].children[c].text) :
                                 c \in DdsOf(store_page, p[1])} :
                             p \in UsersCells(store_page)} \ {None}
        IN  values # {} =>
                /\ extract_mozilla_addon_users(store_page).ctl = "return"
                /\ extract_mozilla_addon_users(store_page).val \in values

\* C7, amended: the extractor returns the integer of a "Users" title cell's
\* value cell when that value cell is the first dd child of the title cell's
\* parent and no earlier "Users" title cell has a parent with a dd child.
\* Whitespace around "Users" is tolerated; title cells with another label,
\* without the class or outside the list, and value cells elsewhere, do not
\* matter.  With no chrome identifier that integer is the entry's total.
C7_FirstDdOfFirstDecidingCell ==
    LET holds(document, result) ==
            \A p \in UsersCells(document) :
                (/\ DdsOf(document, p[1]) # {}
                 /\ ParseU32(FirstDdText(document, p[1])) # None
                 /\ \A q \in UsersCells(document) :
                        Before(q, p) => DdsOf(document, q[1]) = {}) =>
                    result = ParseU32(FirstDdText(document, p[1]))
    IN  /\ pc = "mozilla_extract" =>
              /\ extract_mozilla_addon_users(store_page).ctl = "return"
              /\ holds(store_page, extract_mozilla_addon_users(store_page).val)
        /\ (pc = "render" /\ Pages.chrome = None /\ Pages.mozilla # None) =>
              holds(MozillaResponse(badge_name).val[1], Some(total_count))

\* the count of the second parent's value cell has become the total, the
\* first parent holding a title cell with another label and a value cell
\* that does not parse
C7_Witness ==
    /\ pc = "render"
    /\ Pages.chrome = None
    /\ Pages.mozilla # None
    /\ LET document == MozillaResponse(badge_name).val[1]
       IN  /\ Len(document) = 2
           /\ document[1].children = <<DtReviews, DdBad>>
           /\ UsersCells(document) = {<<2, 1>>}
           /\ DdsOf(document, 2) = {2}
           /\ Some(total_count) = ParseU32(FirstDdText(document, 2))
           /\ total_count > 0

----------------------------------------------------------------------------
(* C8 *)

\* C8, as stated: the first "Users" title cell decides; when it has no dd
\* sibling, or its dd sibling does not parse, the result is no count.
C8_Original ==
    (pc = "mozilla_extract" /\ UsersCells(store_page) # {}) =>
        LET p == FirstCell(UsersCells(store_page))
        IN  (\/ DdsOf(store_page, p[1]) = {}
             \/ ParseU32(FirstDdText(store_page, p[1])) = None) =>
                extract_mozilla_addon_users(store_page) = Returns(None)

\* C8, amended: the extractor decides at the first "Users" title cell whose
\* parent has a dd child: the result is what the text of that parent's first
\* dd parses to, no count when it does not parse, and no later title cell is
\* examined.  A "Users" title cell whose parent has no dd child decides
\* nothing: the scan goes on to the next title cell.  With no deciding cell
\* the result is no count.
C8_FirstDecidingCellDecides ==
    pc = "mozilla_extract" =>
        LET deciding == DecidingCells(store_page)
        IN  extract_mozilla_addon_users(store_page) =
                Returns(IF deciding = {} THEN None
                        ELSE ParseU32(FirstDdText(store_page, FirstCell(deciding)[1])))

\* the first "Users" title cell's value cell did not parse, a later one's
\* would have, and the entry's total is 0
C8_Witness ==
    /\ pc = "render"
    /\ Pages.chrome = None
    /\ Pages.mozilla # None
    /\ total_count = 0
    /\ LET document == MozillaResponse(badge_name).val[1]
           deciding == DecidingCells(document)
       IN  /\ Cardinality(deciding) = 2
           /\ ParseU32(FirstDdText(document, FirstCell(deciding)[1])) = None
           /\ \E q \in deciding : ParseU32(FirstDdText(document, q[1])) # None

====
